---- MODULE Spec2Model ----
(***************************************************************************)
(* Group resolution of the Google connector (connector/google/google.go):  *)
(* getGroups (sequential, recursive expansion over the paginated           *)
(* directory), getAllGroups (one goroutine per direct group of the user,   *)
(* a shared sync.Map, an errgroup and a collector goroutine) and the part  *)
(* of createIdentity that calls them and filters by the allow-list.        *)
(***************************************************************************)
EXTENDS Integers, Sequences, FiniteSets, TLC

\* ------------------------------------------------------------------ bounds

\* Largest number of membership edges of a directory drawn by Init.
MaxEdges == 4
\* Largest number of directory calls the directory fails in one behaviour.
MaxFail == 1
\* Number of resolution calls made one after another on the same directory.
MaxRuns == 2
\* Largest number of membership edges of the graphs explored with fairness.
MaxFairEdges == 3

\* ------------------------------------------------------------- identifiers

User == "u"
Groups == {"A", "B", "C"}
Members == {User} \cup Groups
\* The order in which the directory lists the groups of a member.
GroupOrder == <<"A", "B", "C">>

\* --------------------------------------------------------------- directory

\* A membership graph: <<m, g>> says that member m belongs to group g.
AllEdges == Members \X Groups

RECURSIVE ReachFrom(_, _, _)
\* The groups reachable from the members of `front` by one or more edges of E.
ReachFrom(E, front, seen) ==
    LET new == {e[2] : e \in {x \in E : x[1] \in front}} \ seen
    IN  IF new = {} THEN seen ELSE ReachFrom(E, new, seen \cup new)

Reach(E, m) == ReachFrom(E, {m}, {})

\* Graphs all of whose edges start at the user or at a group the user reaches
\* (the directory is never asked about any other member).
Graphs ==
    {E \in SUBSET AllEdges :
        /\ Cardinality(E) <= MaxEdges
        /\ \A e \in E : e[1] \in {User} \cup Reach(E, User)}

\* The ways the directory splits a member's groups into pages.
Pagings == {"one", "each", "gap"}

SeqOfGroups(S) ==
    LET idx == {i \in 1..Len(GroupOrder) : GroupOrder[i] \in S}
        RECURSIVE Build(_)
        Build(i) == IF i > Len(GroupOrder) THEN <<>>
                    ELSE IF i \in idx THEN <<GroupOrder[i]>> \o Build(i + 1)
                    ELSE Build(i + 1)
    IN  Build(1)

\* The pages of a member whose groups, in directory order, are gs.
PagesOf(gs, paging) ==
    IF gs = <<>> THEN << <<>> >>
    ELSE IF paging = "one" THEN <<gs>>
    ELSE IF paging = "each" THEN [i \in 1..Len(gs) |-> <<gs[i]>>]
    ELSE IF Len(gs) = 1 THEN << <<>>, gs >>
    ELSE << <<gs[1]>>, <<>>, Tail(gs) >>

Directory(E, paging) ==
    [m \in Members |-> PagesOf(SeqOfGroups({e[2] : e \in {x \in E : x[1] = m}}), paging)]

Directories == {Directory(E, p) : E \in Graphs, p \in Pagings}

\* The membership edges a directory holds, over all pages.
EdgesOf(dir) ==
    {e \in AllEdges : \E i \in 1..Len(dir[e[1]]) :
                        \E j \in 1..Len(dir[e[1]][i]) : dir[e[1]][i][j] = e[2]}

SeqToSet(s) == {s[i] : i \in 1..Len(s)}

NoDup(s) == \A i, j \in 1..Len(s) : s[i] = s[j] => i = j

Count(s, x) == Cardinality({i \in 1..Len(s) : s[i] = x})

\* ------------------------------------------------------ the directory client

\* Groups.List().UserKey(email).PageToken(tok).Do() on a directory that answers:
\* the page the token names and the token of the next page. The empty token is
\* 0; the token of the page after page k is k.
List(dir, email, tok) ==
    [groups |-> dir[email][tok + 1],
     next   |-> IF tok + 1 < Len(dir[email]) THEN tok + 1 ELSE 0]

\* -------------------------------------------------- getGroups as a function

\* Mutation: LoadOrStore never reports the key as loaded.
LoadOrStoreNeverLoaded(checked, email) == FALSE

\* checkedGroups.LoadOrStore(email, struct{}{}): whether email was loaded.
LoadOrStoreLoaded(checked, email) == email \in checked

\* Mutation: LoadOrStore reports the group as new and does not keep it.
LoadOrStoreForgets(checked, email) == checked

\* checkedGroups.LoadOrStore(email, struct{}{}): the map afterwards.
LoadOrStoreMap(checked, email) == checked \cup {email}

RECURSIVE getGroupsPages(_, _, _, _, _, _), getGroupsItems(_, _, _, _, _)
\* getGroups when every directory call succeeds and no other goroutine touches
\* checkedGroups: the loop over the pages of email, from token tok on.
getGroupsPages(dir, email, tok, checked, userGroups, transitive) ==
    LET groupsList == List(dir, email, tok)
        r == getGroupsItems(dir, groupsList.groups, checked, userGroups, transitive)
    IN  IF groupsList.next = 0 THEN r
        ELSE getGroupsPages(dir, email, groupsList.next, r.checked, r.groups, transitive)

\* The loop over the groups of one page.
getGroupsItems(dir, buf, checked, userGroups, transitive) ==
    IF buf = <<>> THEN [groups |-> userGroups, checked |-> checked]
    ELSE IF LoadOrStoreLoaded(checked, Head(buf))
         THEN getGroupsItems(dir, Tail(buf), checked, userGroups, transitive)
    ELSE IF ~transitive
         THEN getGroupsItems(dir, Tail(buf), LoadOrStoreMap(checked, Head(buf)),
                             Append(userGroups, Head(buf)), transitive)
    ELSE LET sub == getGroupsPages(dir, Head(buf), 0,
                                   LoadOrStoreMap(checked, Head(buf)), <<>>, transitive)
         IN  getGroupsItems(dir, Tail(buf), sub.checked,
                            Append(userGroups, Head(buf)) \o sub.groups, transitive)

\* getGroups(ctx, email, &sync.Map{}) with every directory call succeeding.
getGroupsSeq(dir, email, transitive) ==
    getGroupsPages(dir, email, 0, {}, <<>>, transitive).groups

\* ------------------------------------------------------------------- errors

\* An error value: the messages fmt.Errorf wrapped around it, outermost first,
\* and the error at the bottom.
Nil == [kind |-> "nil", email |-> "", tok |-> 0]
NoErr == [msg |-> <<>>, cause |-> Nil]
\* cctx.Err() after cancellation.
Canceled == [kind |-> "context canceled", email |-> "", tok |-> 0]
\* The error of the directory failing the call for page tok of email.
DirErr(email, tok) == [kind |-> "directory", email |-> email, tok |-> tok]

\* fmt.Errorf(prefix + ": %v", err)
Errorf(prefix, err) == [msg |-> <<prefix>> \o err.msg, cause |-> err.cause]

RECURSIVE Propagate(_, _)
\* The error getGroups returns at the top when the call of its innermost of
\* depth nested invocations fails with cause.
Propagate(depth, cause) ==
    IF depth = 1 THEN Errorf("could not list groups", [msg |-> <<>>, cause |-> cause])
    ELSE Errorf("could not list transitive groups", Propagate(depth - 1, cause))

\* -------------------------------------------------------------------- state

VARIABLES
    directory,      \* adminSrv: member -> pages of groups
    transitive,     \* c.fetchTransitiveGroupMembership
    allow,          \* c.groups, the allow-list
    entry,          \* the function called: getGroups, getAllGroups, createIdentity
    pc,             \* where the calling goroutine is
    checkedGroups,  \* the sync.Map of the call
    wk,             \* the goroutines running getGroups (g.Go), by launch order
    groups,         \* getAllGroups: the slice the collector appends to
    col,            \* the collector goroutine: off, select, append, closed
    colVal,         \* the value the collector received and has not appended
    ctxDone,        \* the caller's ctx.Done() is closed
    cctxDone,       \* cctx.Done() is closed
    gErr,           \* the errgroup's err
    ret,            \* what getGroups / getAllGroups returned
    identity,       \* what createIdentity returned
    failures,       \* directory calls failed so far
    errLog,         \* history: the workers that reached errOnce, in order
    answers,        \* history: the phases, after "running", in which answered calls went out
    expanded,       \* history: member -> invocations of getGroups started on it
    stored,         \* history: group -> LoadOrStore calls that stored it
    runs,           \* resolution calls started so far
    prev            \* history: the set the previous successful run returned

config == <<directory, transitive, allow, entry>>
hist == <<errLog, answers, expanded, stored>>
vars == <<config, ctxDone, pc, checkedGroups, wk, groups, col, colVal, cctxDone, gErr,
          ret, identity, failures, hist, runs, prev>>

\* One invocation of getGroups: email is the member asked about, tok the page
\* token of the next call, st where the invocation is (call: about to call the
\* directory, wait: call in flight, loop: visiting the page), buf the groups of
\* the page still to visit, next the token the page came with, acc userGroups;
\* sent is history, the phase of the run in which the call in flight went out.
Frame(email) ==
    [email |-> email, tok |-> 0, st |-> "call", sent |-> "", buf |-> <<>>, next |-> 0,
     acc |-> <<>>]

\* A goroutine about to run getGroups(ctx, email, checkedGroups): out is what
\* it still has to send or return; child is history, the childGroups it built.
Worker(email) ==
    [email |-> email, pc |-> "getGroups", stack |-> <<Frame(email)>>,
     out |-> <<>>, child |-> <<>>, err |-> NoErr]

Top(t) == wk[t].stack[Len(wk[t].stack)]

\* The locals of a call, before its first step.
Fresh ==
    /\ checkedGroups = {}
    /\ groups = <<>>
    /\ col = "off"
    /\ colVal = ""
    /\ ctxDone = FALSE
    /\ cctxDone = FALSE
    /\ gErr = NoErr
    /\ ret = [groups |-> <<>>, err |-> NoErr]
    /\ identity = [groups |-> <<>>, err |-> NoErr]
    /\ failures = 0
    /\ errLog = <<>>
    /\ answers = {}
    /\ stored = [g \in Groups |-> 0]

\* No invocation of getGroups yet.
NotExpanded == [m \in Members |-> 0]

\* The caller at the first step of getAllGroups or of getGroups.
Enter(concurrent) ==
    IF concurrent THEN pc = "list" /\ wk = <<>> /\ expanded = NotExpanded
    ELSE /\ pc = "getGroups"
         /\ wk = <<Worker(User)>>
         /\ expanded = [NotExpanded EXCEPT ![User] = 1]

\* --------------------------------------------------------- getGroups, by step

RECURSIVE Unwind(_)
\* The stack once the invocation on top has run as far as its next directory
\* call or its next LoadOrStore: at the end of a page it asks for the next page
\* if the token is not empty, and returns userGroups to its caller, which
\* appends them to its own, if it is (lines 360-368).
Unwind(stack) ==
    LET n == Len(stack)
        f == stack[n]
    IN  IF f.st # "loop" \/ f.buf # <<>> THEN stack
        ELSE IF f.next # 0
             THEN [stack EXCEPT ![n] = [f EXCEPT !.st = "call", !.tok = f.next]]
        ELSE IF n = 1 THEN <<[f EXCEPT !.st = "return"]>>
        ELSE Unwind([SubSeq(stack, 1, n - 1) EXCEPT
                        ![n - 1] = [@ EXCEPT !.acc = @ \o f.acc]])

\* Mutation: the goroutine sends what getGroups returned and not its own group.
ChildGroupsNoSeed(w, userGroups) == userGroups

\* What the goroutine sends after getGroups returned childGroups (line 290).
ChildGroups(w, userGroups) == Append(userGroups, w.email)

\* The goroutine w after a step of getGroups left it with stack: still inside
\* getGroups, or back from it with the groups (a worker of getAllGroups then
\* goes on to send them, lines 290-298).
Continue(w, stack, concurrent) ==
    LET s == Unwind(stack)
    IN  IF s[1].st # "return" THEN [w EXCEPT !.stack = s]
        ELSE IF concurrent
             THEN [w EXCEPT !.stack = <<>>,
                            !.pc = IF ChildGroups(w, s[1].acc) = <<>> THEN "done"
                                   ELSE "send",
                            !.out = ChildGroups(w, s[1].acc),
                            !.child = ChildGroups(w, s[1].acc)]
        ELSE [w EXCEPT !.stack = <<>>, !.pc = "returned", !.out = s[1].acc]

\* Mutation: an error of a nested invocation is dropped and the loop of the
\* invocation that called it goes on.
FailedNestedDropped(w, err) ==
    IF Len(w.stack) <= 1
    THEN [w EXCEPT !.stack = <<>>, !.pc = "returned", !.out = <<>>, !.err = err]
    ELSE Continue(w, SubSeq(w.stack, 1, Len(w.stack) - 1), pc = "wait")

\* The goroutine w after getGroups returned nil and err (lines 339, 357, 287).
Failed(w, err) == [w EXCEPT !.stack = <<>>, !.pc = "returned", !.out = <<>>, !.err = err]

Concurrent == pc = "wait"

\* Mutation: the directory calls carry a context that is never cancelled.
CtxNeverDone == FALSE

\* The context the goroutines' directory calls carry is done: cctx in
\* getAllGroups, the caller's ctx otherwise.
CtxDone == IF Concurrent THEN cctxDone ELSE ctxDone

InGetGroups(t) == t \in DOMAIN wk /\ wk[t].pc = "getGroups"

\* The phase of the run: cctx is cancelled, or a directory call of a goroutine
\* has failed and cctx is not cancelled yet, or neither.
Phase ==
    IF cctxDone THEN "cancelled"
    ELSE IF \E t \in DOMAIN wk : wk[t].err.cause.kind = "directory" THEN "failed"
    ELSE "running"

\* Lines 332-337 with a live context: the request goes out.
ListDispatch(t) ==
    /\ InGetGroups(t) /\ Top(t).st = "call"
    /\ ~CtxDone
    /\ wk' = [wk EXCEPT ![t].stack[Len(wk[t].stack)] =
                            [@ EXCEPT !.st = "wait", !.sent = Phase]]
    /\ UNCHANGED <<config, ctxDone, pc, checkedGroups, groups, col, colVal, cctxDone, gErr, ret,
                   identity, failures, hist, runs, prev>>

\* Lines 332-340 with a context already cancelled: Do fails at once with the
\* context's error and getGroups returns it wrapped.
ListCanceled(t) ==
    /\ InGetGroups(t) /\ Top(t).st = "call"
    /\ CtxDone
    /\ wk' = [wk EXCEPT ![t] = Failed(@, Propagate(Len(@.stack), Canceled))]
    /\ UNCHANGED <<config, ctxDone, pc, checkedGroups, groups, col, colVal, cctxDone, gErr, ret,
                   identity, failures, hist, runs, prev>>

\* Mutation: an empty page ends the pagination whatever its token.
ReceivedStopOnEmpty(f, groupsList) ==
    [f EXCEPT !.st = "loop", !.buf = groupsList.groups,
              !.next = IF groupsList.groups = <<>> THEN 0 ELSE groupsList.next]

\* The invocation f once Do returned groupsList: it loops over the groups of
\* the page and keeps the page's token for line 363.
Received(f, groupsList) ==
    [f EXCEPT !.st = "loop", !.buf = groupsList.groups, !.next = groupsList.next]

\* The request in flight is answered: the page and its token arrive.
ListOK(t) ==
    /\ InGetGroups(t) /\ Top(t).st = "wait"
    /\ LET f == Top(t)
           n == Len(wk[t].stack)
       IN  wk' = [wk EXCEPT ![t] =
                    Continue(@, [@.stack EXCEPT ![n] =
                                    Received(f, List(directory, f.email, f.tok))],
                             Concurrent)]
    /\ answers' = answers \cup ({Top(t).sent} \ {"running"})
    /\ UNCHANGED <<config, ctxDone, pc, checkedGroups, groups, col, colVal, cctxDone, gErr, ret,
                   identity, failures, errLog, expanded, stored, runs, prev>>

\* The request in flight fails in the directory (lines 338-340, 356-358).
ListFail(t) ==
    /\ InGetGroups(t) /\ Top(t).st = "wait"
    /\ failures < MaxFail
    /\ failures' = failures + 1
    /\ wk' = [wk EXCEPT ![t] =
                Failed(@, Propagate(Len(@.stack), DirErr(Top(t).email, Top(t).tok)))]
    /\ UNCHANGED <<config, ctxDone, pc, checkedGroups, groups, col, colVal, cctxDone, gErr, ret,
                   identity, hist, runs, prev>>

\* The request in flight is cut short by the cancellation of its context.
ListAborted(t) ==
    /\ InGetGroups(t) /\ Top(t).st = "wait"
    /\ CtxDone
    /\ wk' = [wk EXCEPT ![t] = Failed(@, Propagate(Len(@.stack), Canceled))]
    /\ UNCHANGED <<config, ctxDone, pc, checkedGroups, groups, col, colVal, cctxDone, gErr, ret,
                   identity, failures, hist, runs, prev>>

\* Mutation: the group is appended but never expanded.
VisitNoRecursion(stack, email, recurse) ==
    [stack EXCEPT ![Len(stack)] = [@ EXCEPT !.buf = Tail(@), !.acc = Append(@, email)]]

\* The frame after LoadOrStore stored group.Email: the group is appended and,
\* with transitive membership, getGroups is called on it (lines 348-355).
Visit(stack, email, recurse) ==
    LET n == Len(stack)
        f == [stack[n] EXCEPT !.buf = Tail(@), !.acc = Append(@, email)]
    IN  IF recurse THEN Append([stack EXCEPT ![n] = f], Frame(email))
        ELSE [stack EXCEPT ![n] = f]

\* Mutation: getGroups is called on the group whatever the setting.
RecursesAlways(fetchTransitive) == TRUE

\* Lines 350-355: getGroups is called on the group unless
\* c.fetchTransitiveGroupMembership is false.
Recurses(fetchTransitive) == fetchTransitive

\* The frame after LoadOrStore loaded group.Email: continue (line 344).
Skip(stack) == [stack EXCEPT ![Len(stack)].buf = Tail(@)]

\* One iteration of the loop of lines 342-361, up to the recursive call.
LoadOrStore(t) ==
    /\ InGetGroups(t) /\ Top(t).st = "loop"
    /\ LET email == Head(Top(t).buf)
       IN  /\ checkedGroups' = LoadOrStoreMap(checkedGroups, email)
           /\ wk' = [wk EXCEPT ![t] =
                        Continue(@, IF LoadOrStoreLoaded(checkedGroups, email)
                                    THEN Skip(@.stack)
                                    ELSE Visit(@.stack, email, Recurses(transitive)),
                                 Concurrent)]
           /\ stored' = IF LoadOrStoreLoaded(checkedGroups, email) THEN stored
                         ELSE [stored EXCEPT ![email] = @ + 1]
           /\ expanded' = IF ~LoadOrStoreLoaded(checkedGroups, email) /\ Recurses(transitive)
                           THEN [expanded EXCEPT ![email] = @ + 1]
                           ELSE expanded
    /\ UNCHANGED <<config, ctxDone, pc, groups, col, colVal, cctxDone, gErr, ret,
                   identity, failures, errLog, answers, runs, prev>>

\* -------------------------------------------------------------- the caller

\* Where the caller goes when getGroups or getAllGroups has returned.
Returned == IF entry = "createIdentity" THEN "filter" ELSE "end"

\* getGroups called by the caller itself (line 242) returns.
GetGroupsReturn ==
    /\ pc = "getGroups"
    /\ wk[1].pc = "returned"
    /\ ret' = [groups |-> wk[1].out, err |-> wk[1].err]
    /\ wk' = <<>>
    /\ pc' = Returned
    /\ UNCHANGED <<config, ctxDone, checkedGroups, groups, col, colVal, cctxDone, gErr,
                   identity, failures, hist, runs, prev>>

\* ------------------------------------------------------------- getAllGroups

\* The groups getAllGroups starts a goroutine for: those of the answer to its
\* one call of Groups.List, which carries no page token (lines 268-272, 282).
ParentGroups(dir, userKey) == List(dir, userKey, 0).groups

\* errgroup.WithContext(ctx), line 280: cctx is done from the start when the
\* caller's ctx is.
WithContext(parentDone) == parentDone

\* Lines 268-315: the call succeeds, one goroutine per parent group is started
\* with g.Go, then the collector.
ListParentGroups ==
    /\ pc = "list"
    /\ LET parentGroups == ParentGroups(directory, User)
       IN  /\ wk' = [i \in 1..Len(parentGroups) |-> Worker(parentGroups[i])]
           /\ expanded' = [m \in Members |->
                              expanded[m] + Count(parentGroups, m)]
    /\ cctxDone' = WithContext(ctxDone)
    /\ col' = "select"
    /\ pc' = "wait"
    /\ UNCHANGED <<config, ctxDone, checkedGroups, groups, colVal, gErr, ret,
                   identity, failures, errLog, answers, stored, runs, prev>>

\* Lines 273-275: the call fails.
ListParentGroupsFail ==
    /\ pc = "list"
    /\ failures < MaxFail
    /\ failures' = failures + 1
    /\ ret' = [groups |-> <<>>, err |-> [msg |-> <<>>, cause |-> DirErr(User, 0)]]
    /\ pc' = Returned
    /\ UNCHANGED <<config, ctxDone, checkedGroups, wk, groups, col, colVal, cctxDone, gErr,
                   identity, hist, runs, prev>>

\* Lines 268-275: the caller's ctx is done and the call fails with its error.
ListParentGroupsCanceled ==
    /\ pc = "list"
    /\ ctxDone
    /\ ret' = [groups |-> <<>>, err |-> [msg |-> <<>>, cause |-> Canceled]]
    /\ pc' = Returned
    /\ UNCHANGED <<config, ctxDone, checkedGroups, wk, groups, col, colVal, cctxDone, gErr,
                   identity, failures, hist, runs, prev>>

\* The caller cancels the ctx it passed while getAllGroups runs; cctx, derived
\* from it (line 280), is done with it.
CallerCancel ==
    /\ pc \in {"list", "wait", "done"}
    /\ ~ctxDone
    /\ ctxDone' = TRUE
    /\ cctxDone' = IF pc = "list" THEN cctxDone ELSE TRUE
    /\ UNCHANGED <<config, pc, checkedGroups, wk, groups, col, colVal, gErr, ret,
                   identity, failures, hist, runs, prev>>

\* Line 294: the collector takes the next element of childGroups; after the
\* last one the goroutine returns nil.
Send(t) ==
    /\ t \in DOMAIN wk /\ wk[t].pc = "send"
    /\ col = "select"
    /\ colVal' = Head(wk[t].out)
    /\ col' = "append"
    /\ wk' = [wk EXCEPT ![t].out = Tail(@),
                        ![t].pc = IF Len(wk[t].out) = 1 THEN "done" ELSE "send"]
    /\ UNCHANGED <<config, ctxDone, pc, checkedGroups, groups, cctxDone, gErr, ret,
                   identity, failures, hist, runs, prev>>

\* Mutation: the send has no case for cctx.Done().
SendNeverAbandoned == FALSE

\* Line 295: the case <-cctx.Done() of the goroutine's select is ready.
SendAbandoned == cctxDone

\* Lines 295-296: the goroutine gives up the send and returns cctx.Err().
SendCanceled(t) ==
    /\ t \in DOMAIN wk /\ wk[t].pc = "send"
    /\ SendAbandoned
    /\ wk' = [wk EXCEPT ![t] = Failed(@, [msg |-> <<>>, cause |-> Canceled])]
    /\ UNCHANGED <<config, ctxDone, pc, checkedGroups, groups, col, colVal, cctxDone, gErr, ret,
                   identity, failures, hist, runs, prev>>

\* Mutation: every error of a goroutine replaces the one kept.
ErrLast(kept, err) == err

\* errgroup's errOnce.Do: the error kept when a goroutine returns err.
ErrOnce(kept, err) == IF kept = NoErr THEN err ELSE kept

\* errgroup: a goroutine returned a non-nil error; the first one to get here
\* sets the group's error and cancels cctx (lines 280, 284).
GoReturn(t) ==
    /\ Concurrent
    /\ t \in DOMAIN wk /\ wk[t].pc = "returned"
    /\ gErr' = ErrOnce(gErr, wk[t].err)
    /\ cctxDone' = TRUE
    /\ errLog' = Append(errLog, t)
    /\ wk' = [wk EXCEPT ![t].pc = "done"]
    /\ UNCHANGED <<config, ctxDone, pc, checkedGroups, groups, col, colVal, ret,
                   identity, failures, answers, expanded, stored, runs, prev>>

\* Lines 311-312: the collector appends what it received.
CollectAppend ==
    /\ col = "append"
    /\ groups' = Append(groups, colVal)
    /\ col' = "select"
    /\ UNCHANGED <<config, ctxDone, pc, checkedGroups, wk, colVal, cctxDone, gErr, ret,
                   identity, failures, hist, runs, prev>>

\* Mutation: the collector may return whenever no send is ready.
CollectorStopsAnyTime == TRUE

\* Line 308: the case <-cctx.Done() of the collector's select is ready.
CollectorCanStop == cctxDone

\* Lines 308-310: the collector sees cctx done, closes done and returns.
CollectDone ==
    /\ col = "select"
    /\ CollectorCanStop
    /\ col' = "closed"
    /\ UNCHANGED <<config, ctxDone, pc, checkedGroups, wk, groups, colVal, cctxDone, gErr, ret,
                   identity, failures, hist, runs, prev>>

AllDone == \A t \in DOMAIN wk : wk[t].pc = "done"

\* Mutation: the groups collected so far are returned with the error.
WaitFailedPartial(err, collected) == [groups |-> collected, err |-> err]

\* What getAllGroups returns when g.Wait() returned err (lines 317-319).
WaitFailed(err, collected) == [groups |-> <<>>, err |-> err]

\* Lines 317-319: every goroutine has returned, g.Wait() cancels cctx and
\* returns the group's error, which is not nil.
WaitErr ==
    /\ pc = "wait" /\ AllDone
    /\ gErr # NoErr
    /\ cctxDone' = TRUE
    /\ ret' = WaitFailed(gErr, groups)
    /\ pc' = Returned
    /\ UNCHANGED <<config, ctxDone, checkedGroups, wk, groups, col, colVal, gErr,
                   identity, failures, hist, runs, prev>>

\* Mutation: Wait leaves cctx as it is.
WaitLeavesCtx(done) == done

\* errgroup's Wait calls the group's cancel once every goroutine has returned
\* (lines 280, 317).
WaitCancels(done) == TRUE

\* Line 317: every goroutine has returned nil, g.Wait() cancels cctx.
WaitOK ==
    /\ pc = "wait" /\ AllDone
    /\ gErr = NoErr
    /\ cctxDone' = WaitCancels(cctxDone)
    /\ pc' = "done"
    /\ UNCHANGED <<config, ctxDone, checkedGroups, wk, groups, col, colVal, gErr, ret,
                   identity, failures, hist, runs, prev>>

\* Mutation: groups is returned without the receive from done.
DoneNotAwaited == TRUE

\* Line 320: the receive from done returns once the collector closed it.
DoneClosed == col = "closed"

\* Lines 320-322: done is closed, groups is returned.
RecvDone ==
    /\ pc = "done"
    /\ DoneClosed
    /\ ret' = [groups |-> groups, err |-> NoErr]
    /\ pc' = Returned
    /\ UNCHANGED <<config, ctxDone, checkedGroups, wk, groups, col, colVal, cctxDone, gErr,
                   identity, failures, hist, runs, prev>>

\* ----------------------------------------------------------- createIdentity

\* pkg_groups.Filter(given, required): the groups of given that required holds.
Filter(given, required) == SelectSeq(given, LAMBDA email : email \in required)

NotInRequiredGroups ==
    [msg |-> <<"google: user is not in any of the required groups">>, cause |-> Nil]

\* Mutation: the allow-list is applied without looking at err first.
CreateIdentityResultFilterFirst(r, required) ==
    LET kept == IF required = {} THEN r.groups
                ELSE SelectSeq(r.groups, LAMBDA email : email \in required)
    IN  IF required # {} /\ Len(kept) = 0
        THEN [groups |-> <<>>,
              err |-> [msg |-> <<"google: user is not in any of the required groups">>,
                       cause |-> [kind |-> "nil", email |-> "", tok |-> 0]]]
        ELSE IF r.err # NoErr
        THEN [groups |-> <<>>, err |-> Errorf("google: could not retrieve groups", r.err)]
        ELSE [groups |-> kept, err |-> NoErr]

\* Lines 244-264: the groups and the error createIdentity returns, from what
\* getAllGroups or getGroups returned and c.groups.
CreateIdentityResult(r, required) ==
    IF r.err # NoErr
    THEN [groups |-> <<>>, err |-> Errorf("google: could not retrieve groups", r.err)]
    ELSE IF required = {} THEN [groups |-> r.groups, err |-> NoErr]
    ELSE IF Len(Filter(r.groups, required)) = 0
         THEN [groups |-> <<>>, err |-> NotInRequiredGroups]
    ELSE [groups |-> Filter(r.groups, required), err |-> NoErr]

CreateIdentity ==
    /\ pc = "filter"
    /\ identity' = CreateIdentityResult(ret, allow)
    /\ pc' = "end"
    /\ UNCHANGED <<config, ctxDone, checkedGroups, wk, groups, col, colVal, cctxDone, gErr, ret,
                   failures, hist, runs, prev>>

\* ------------------------------------------------------------ the next call

\* Mutation: the map outlives the call.
KeepCheckedGroups(old) == old

\* Line 279: the map a call of getAllGroups starts with, whatever the map of
\* the call before held.
NewCheckedGroups(old) == {}

\* Line 277: the slice a call of getAllGroups starts with.
NewGroups(old) == <<>>

\* getAllGroups is called again on the same directory: its locals are new
\* (lines 277-280, 304).
Rerun ==
    /\ pc = "end"
    /\ runs < MaxRuns
    /\ runs' = runs + 1
    /\ prev' = IF ret.err = NoErr THEN [has |-> TRUE, set |-> SeqToSet(ret.groups)]
               ELSE prev
    /\ checkedGroups' = NewCheckedGroups(checkedGroups)
    /\ groups' = NewGroups(groups)
    /\ col' = "off"
    /\ colVal' = ""
    /\ cctxDone' = FALSE
    /\ gErr' = NoErr
    /\ ret' = [groups |-> <<>>, err |-> NoErr]
    /\ errLog' = <<>>
    /\ answers' = {}
    /\ expanded' = NotExpanded
    /\ stored' = [g \in Groups |-> 0]
    /\ pc' = "list"
    /\ wk' = <<>>
    /\ UNCHANGED <<config, ctxDone, identity, failures>>

\* ----------------------------------------------------------- specifications

AllowLists == {{}, {"B", "D"}, {"A", "C"}}

Start(dirs) ==
    /\ directory \in dirs
    /\ runs = 1
    /\ prev = [has |-> FALSE, set |-> {}]
    /\ Fresh

\* getAllGroups(ctx, userKey).
Init ==
    /\ entry = "getAllGroups"
    /\ transitive = TRUE
    /\ allow = {}
    /\ Start(Directories)
    /\ Enter(TRUE)

Next ==
    \/ ListParentGroups
    \/ ListParentGroupsFail
    \/ \E t \in DOMAIN wk : ListDispatch(t)
    \/ \E t \in DOMAIN wk : ListCanceled(t)
    \/ \E t \in DOMAIN wk : ListOK(t)
    \/ \E t \in DOMAIN wk : ListFail(t)
    \/ \E t \in DOMAIN wk : ListAborted(t)
    \/ \E t \in DOMAIN wk : LoadOrStore(t)
    \/ \E t \in DOMAIN wk : Send(t)
    \/ \E t \in DOMAIN wk : SendCanceled(t)
    \/ \E t \in DOMAIN wk : GoReturn(t)
    \/ CollectAppend
    \/ CollectDone
    \/ WaitErr
    \/ WaitOK
    \/ RecvDone

Spec == Init /\ [][Next]_vars

\* getAllGroups(ctx, userKey) on the directories of the smaller graphs, with
\* the goroutines scheduled and the directory answering: a step that can be
\* taken is taken in the end.
InitFair ==
    /\ Init
    /\ Cardinality(EdgesOf(directory)) <= MaxFairEdges

SpecFair == InitFair /\ [][Next]_vars /\ WF_vars(Next)

\* getAllGroups(ctx, userKey) with a caller that may cancel ctx.
NextCancel ==
    \/ Next
    \/ CallerCancel
    \/ ListParentGroupsCanceled

SpecCancel == Init /\ [][NextCancel]_vars

\* getAllGroups(ctx, userKey), called again when it has returned.
NextRerun == Next \/ Rerun

SpecRerun == Init /\ [][NextRerun]_vars

\* getGroups(ctx, email, &sync.Map{}), with and without transitive membership.
InitSeq ==
    /\ entry = "getGroups"
    /\ transitive \in BOOLEAN
    /\ allow = {}
    /\ Start(Directories)
    /\ Enter(FALSE)

NextSeq ==
    \/ \E t \in DOMAIN wk : ListDispatch(t)
    \/ \E t \in DOMAIN wk : ListOK(t)
    \/ \E t \in DOMAIN wk : ListFail(t)
    \/ \E t \in DOMAIN wk : LoadOrStore(t)
    \/ GetGroupsReturn

\* The one goroutine of a sequential expansion keeps running and every
\* directory call returns.
SpecSeq == InitSeq /\ [][NextSeq]_vars /\ WF_vars(NextSeq)

\* Lines 237-264 of createIdentity, with s.Groups set and a directory service.
InitIdentity ==
    /\ entry = "createIdentity"
    /\ transitive \in BOOLEAN
    /\ allow \in AllowLists
    /\ Start(Directories)
    /\ Enter(transitive)

NextIdentity ==
    \/ ListParentGroups
    \/ ListParentGroupsFail
    \/ \E t \in DOMAIN wk : ListDispatch(t)
    \/ \E t \in DOMAIN wk : ListCanceled(t)
    \/ \E t \in DOMAIN wk : ListOK(t)
    \/ \E t \in DOMAIN wk : ListFail(t)
    \/ \E t \in DOMAIN wk : ListAborted(t)
    \/ \E t \in DOMAIN wk : LoadOrStore(t)
    \/ \E t \in DOMAIN wk : Send(t)
    \/ \E t \in DOMAIN wk : SendCanceled(t)
    \/ \E t \in DOMAIN wk : GoReturn(t)
    \/ CollectAppend
    \/ CollectDone
    \/ WaitErr
    \/ WaitOK
    \/ RecvDone
    \/ GetGroupsReturn
    \/ CreateIdentity

SpecIdentity == InitIdentity /\ [][NextIdentity]_vars

\* ------------------------------------------------------------------- claims

\* The call has returned without error.
Succeeded == pc = "end" /\ ret.err = NoErr

\* The groups of the user's answer over all pages.
DirectGroups == {e[2] : e \in {x \in EdgesOf(directory) : x[1] = User}}

\* The groups reachable from the user by one or more membership edges.
Reachable == Reach(EdgesOf(directory), User)

\* The step-by-step getGroups returns what getGroups as a function returns
\* (under SpecSeq).
GetGroupsAgrees == Succeeded => ret.groups = getGroupsSeq(directory, User, transitive)

\* C1: sequential expansion with transitive membership and a fresh visited set
\* terminates on every membership graph, cycles and self-loops included, and when
\* every directory call succeeds it returns exactly the groups reachable from the
\* user by one or more membership edges, each once.
C1_SequentialReachable ==
    /\ [](Succeeded /\ transitive =>
            SeqToSet(ret.groups) = Reachable /\ NoDup(ret.groups))
    /\ <>(pc = "end")

\* A transitive expansion returned the groups of a graph with a cycle.
C1_Witness ==
    /\ Succeeded /\ transitive
    /\ \E g \in Reachable : g \in Reach(EdgesOf(directory), g)
    /\ Cardinality(Reachable) >= 2
    /\ SeqToSet(ret.groups) = Reachable

\* C2: whenever all directory calls succeed, getAllGroups returns the same set
\* of groups as getGroups from the user with a fresh visited set and transitive
\* membership, whatever the graph, the pagination and the interleaving.
C2_ConcurrentEqualsSequential ==
    Succeeded => SeqToSet(ret.groups) = SeqToSet(getGroupsSeq(directory, User, TRUE))

\* The seed groups: the groups getAllGroups started a goroutine for.
Seeds == {wk[t].email : t \in DOMAIN wk}

\* c is no direct group of the user and is a parent of two or more seeds.
SharedParent(c) ==
    /\ c \notin DirectGroups
    /\ \E t1, t2 \in DOMAIN wk :
          /\ t1 # t2 /\ wk[t1].email # wk[t2].email
          /\ <<wk[t1].email, c>> \in EdgesOf(directory)
          /\ <<wk[t2].email, c>> \in EdgesOf(directory)

\* C3: a group that is no direct group of the user and is a parent of two or
\* more seed groups is once in the result of getAllGroups, under every
\* interleaving of the workers.
C3_SharedParentOnce ==
    Succeeded => \A c \in Groups : SharedParent(c) => Count(ret.groups, c) = 1

\* getAllGroups returned with a group that two workers both came to.
C3_Witness == Succeeded /\ \E c \in Groups : SharedParent(c) /\ Count(ret.groups, c) = 1

\* C4: a successful resolution never returns the same group twice, in the
\* concurrent strategy (stated here for getAllGroups) as in the sequential one.
C4_NoDuplicates == Succeeded => NoDup(ret.groups)

\* C5: whenever a worker returned an error, getAllGroups returns an error and no
\* groups, whatever the collector had appended; groups are never returned
\* together with an error.
C5_AllOrNothing ==
    pc = "end" =>
        /\ ret.err # NoErr => ret.groups = <<>>
        /\ (\E t \in DOMAIN wk : wk[t].err # NoErr) => ret.err # NoErr /\ ret.groups = <<>>

\* getAllGroups returned an error after the collector had appended groups.
C5_Witness == pc = "end" /\ ret.err # NoErr /\ groups # <<>> /\ errLog # <<>>

\* C6: when several workers fail, the error returned is the error of the worker
\* whose failure the errgroup recorded first; that first failure cancels cctx,
\* nothing else cancels it while workers run, and no later error replaces it.
C6_FirstErrorWins ==
    /\ gErr = (IF errLog = <<>> THEN NoErr ELSE wk[errLog[1]].err)
    /\ errLog # <<>> => cctxDone
    /\ pc = "wait" /\ cctxDone => errLog # <<>>
    /\ pc = "end" /\ errLog # <<>> => ret.err = wk[errLog[1]].err

\* getAllGroups returned after two workers failed with different errors.
C6_Witness ==
    /\ pc = "end"
    /\ Len(errLog) >= 2
    /\ wk[errLog[1]].err # wk[errLog[2]].err
    /\ ret.err = wk[errLog[1]].err

\* The directory calls in flight that went out in phase ph.
InFlightSent(ph) ==
    {t \in DOMAIN wk : InGetGroups(t) /\ Top(t).st = "wait" /\ Top(t).sent = ph}

\* A failed directory call makes getAllGroups return that error and no groups.
FailureReturned ==
    pc = "end" /\ failures > 0 =>
        /\ ret.groups = <<>>
        /\ ret.err.cause.kind = "directory"
        /\ wk # <<>> => \E t \in DOMAIN wk : wk[t].err = ret.err

\* C7, as stated: when a directory call fails, getAllGroups returns that error
\* and no groups, and every directory call answered after the failure was in
\* flight when the call failed.
C7_NoCallAfterFailure ==
    /\ FailureReturned
    /\ "failed" \notin answers

\* C7, amended: when a directory call fails, getAllGroups returns that error and
\* no groups; once cctx is cancelled no worker gets a directory call out, so
\* every call answered after the cancellation was in flight when cctx was
\* cancelled.
C7_NoCallAfterCancel ==
    /\ FailureReturned
    /\ InFlightSent("cancelled") = {}
    /\ "cancelled" \notin answers

\* A call that went out between the failure and the cancellation was answered,
\* and the worker's next call failed with the context's error.
C7_Witness ==
    /\ pc = "end" /\ failures > 0
    /\ "failed" \in answers
    /\ \E t \in DOMAIN wk :
          /\ wk[t].err.cause = Canceled
          /\ wk[t].err.msg # <<>>

\* C8: getGroups on a member whose groups come on several pages returns the
\* groups of all the pages: an empty page with a continuation token does not end
\* the loop, only an empty token does.
C8_AllPages ==
    Succeeded =>
        /\ DirectGroups \subseteq SeqToSet(ret.groups)
        /\ ~transitive => SeqToSet(ret.groups) = DirectGroups /\ NoDup(ret.groups)

\* getGroups returned the groups of a page that came after an empty page.
C8_Witness ==
    /\ Succeeded
    /\ Len(directory[User]) = 3
    /\ directory[User][2] = <<>>
    /\ directory[User][3] # <<>>
    /\ SeqToSet(directory[User][3]) \subseteq SeqToSet(ret.groups)

\* createIdentity returned the not-authorized error.
NotAuthorized == identity.err = NotInRequiredGroups

\* C9: with an allow-list and a successful resolution, the identity holds the
\* resolved groups that are in the allow-list; the not-authorized error is
\* returned exactly when there is none, and never when the resolution failed.
C9_AllowList ==
    pc = "end" =>
        /\ ret.err = NoErr /\ allow # {} =>
              /\ NotAuthorized <=> SeqToSet(ret.groups) \cap allow = {}
              /\ ~NotAuthorized =>
                    /\ identity.err = NoErr
                    /\ SeqToSet(identity.groups) = SeqToSet(ret.groups) \cap allow
        /\ ret.err = NoErr /\ allow = {} =>
              identity = [groups |-> ret.groups, err |-> NoErr]
        /\ ret.err # NoErr => ~NotAuthorized /\ identity.err # NoErr

\* Resolved {A, B, C} with the allow-list {B, D} gave the identity the group B.
C9_Witness ==
    /\ pc = "end" /\ ret.err = NoErr
    /\ SeqToSet(ret.groups) = {"A", "B", "C"}
    /\ allow = {"B", "D"}
    /\ identity.err = NoErr
    /\ SeqToSet(identity.groups) = {"B"}

\* C10: two successful runs of getAllGroups on the same directory return the
\* same set of groups, whatever the scheduling, and nothing of an earlier run
\* reaches a later one.
C10_SameSetEveryRun == Succeeded /\ prev.has => SeqToSet(ret.groups) = prev.set

\* A second run returned the set of the first, with a group two workers share.
C10_Witness ==
    /\ Succeeded /\ prev.has /\ runs >= 2
    /\ \E c \in Groups : SharedParent(c) /\ c \in prev.set
    /\ SeqToSet(ret.groups) = prev.set

\* C11: every group getAllGroups started a goroutine for is in the result of
\* every successful call, whether or not an expansion stored it in
\* checkedGroups: the goroutine appends it itself.
C11_SeedsInResult == Succeeded => Seeds \subseteq SeqToSet(ret.groups)

\* A successful call returned a seed that checkedGroups never held.
C11_Witness ==
    /\ Succeeded
    /\ \E g \in Seeds : g \notin checkedGroups /\ g \in SeqToSet(ret.groups)

\* C12: the goroutines getAllGroups starts are one for every direct group of
\* the user on every page of the directory's answer.
C12_SeedsFromAllPages == col # "off" => Seeds = DirectGroups

\* C13: within one call of getGroups or getAllGroups, getGroups is started at
\* most once on every group, a seed that is a parent of another seed included.
C13_ExpandedOnce == \A g \in Groups : expanded[g] <= 1

\* C14: no goroutine waits forever on its send: every goroutine returns and
\* getAllGroups returns, also when the collector has returned before a
\* goroutine came to send.
C14_WorkersTerminate == <>(pc = "end" /\ AllDone)

\* The collector had returned and a goroutine with childGroups to send gave
\* the send up; getAllGroups returned.
C14_Witness ==
    /\ pc = "end" /\ col = "closed"
    /\ \E t \in DOMAIN wk :
          /\ wk[t].child # <<>>
          /\ wk[t].pc = "done"
          /\ wk[t].err = [msg |-> <<>>, cause |-> Canceled]

\* C15: once the goroutines and the collector are started, cctx is cancelled
\* in the end, by the first failure or by Wait, and the collector sees it and
\* closes done, also when the user has no direct group.
C15_CollectorStops == (pc = "wait") ~> (cctxDone /\ col = "closed")

\* The user had no direct group: no goroutine, and done was closed.
C15_Witness == Succeeded /\ wk = <<>> /\ cctxDone /\ col = "closed"

\* What the goroutines built to send, as the number of times each group is in
\* some childGroups.
Produced(g) ==
    Cardinality({x \in (DOMAIN wk) \X (1..(2 * Cardinality(Groups))) :
                    x[2] <= Len(wk[x[1]].child) /\ wk[x[1]].child[x[2]] = g})

\* The goroutine t has childGroups left to send.
LeftToSend(t) == wk[t].pc = "send" /\ wk[t].out # <<>>

\* C16 as stated: in no state has the collector closed done while a goroutine
\* still has an identifier left to send.
C16_CollectorOutlastsWorkers ==
    col = "closed" => \A t \in DOMAIN wk : ~LeftToSend(t)

\* C16: the collector closes done only when cctx is cancelled; when no
\* goroutine has failed and the caller has not cancelled, that is after every
\* goroutine has returned with all its childGroups sent and appended.
C16_CollectorStopsOnCancel ==
    col = "closed" =>
        /\ cctxDone
        /\ gErr = NoErr /\ ~ctxDone =>
              /\ AllDone
              /\ \A t \in DOMAIN wk : wk[t].out = <<>> /\ wk[t].err = NoErr
              /\ \A g \in Groups : Count(groups, g) = Produced(g)

\* The collector closed done after two goroutines had sent everything.
C16_Witness ==
    /\ col = "closed" /\ gErr = NoErr /\ ~ctxDone
    /\ Len(wk) >= 2 /\ Len(groups) >= 3

\* C20: when the caller cancels ctx during getAllGroups, the call returns an
\* error or all of what the goroutines produced: a successful result misses
\* nothing a goroutine built to send.
C20_CancelAllOrError ==
    Succeeded =>
        /\ \A t \in DOMAIN wk : wk[t].err = NoErr /\ wk[t].child # <<>>
        /\ \A g \in Groups : Count(ret.groups, g) = Produced(g)

\* The caller cancelled during the call and the call still returned what two
\* goroutines produced.
C20_Witness ==
    /\ Succeeded /\ ctxDone
    /\ Len(wk) >= 2 /\ Len(ret.groups) >= 3

\* C17: in getGroups called by the caller, a directory call that fails, at any
\* page and at any depth, makes the call return that error and no groups, and
\* once it has failed no invocation is left to issue a further call.
C17_SequentialFailure ==
    /\ pc = "end" /\ failures > 0 =>
          ret.groups = <<>> /\ ret.err.cause.kind = "directory"
    /\ failures > 0 => \A t \in DOMAIN wk : wk[t].stack = <<>>

\* A call on a later page of a group, two invocations deep, failed after
\* groups had been stored, and getGroups returned the error and no groups.
C17_Witness ==
    /\ pc = "end" /\ failures > 0
    /\ ret.groups = <<>>
    /\ Len(ret.err.msg) >= 2 /\ ret.err.cause.tok # 0
    /\ Cardinality(checkedGroups) >= 2

\* C18: without transitive membership getGroups is never called on a group,
\* the user is the only member key asked for, and a successful call returns
\* the user's direct groups over all pages, each once.
C18_OneLevel ==
    ~transitive =>
        /\ \A g \in Groups : expanded[g] = 0
        /\ \A t \in DOMAIN wk : \A i \in DOMAIN wk[t].stack :
              wk[t].stack[i].email = User
        /\ Succeeded => SeqToSet(ret.groups) = DirectGroups /\ NoDup(ret.groups)

\* Direct groups on several pages were returned and a group behind them was not.
C18_Witness ==
    /\ Succeeded /\ ~transitive
    /\ Len(directory[User]) >= 2 /\ Cardinality(DirectGroups) >= 2
    /\ Reachable # DirectGroups
    /\ SeqToSet(ret.groups) = DirectGroups

\* C19: a group LoadOrStore has stored stays in checkedGroups, and of all the
\* calls of LoadOrStore on a group, by every goroutine at every depth, exactly
\* one stores it and the others find it.
C19_StoredOnce ==
    \A g \in Groups : stored[g] <= 1 /\ (stored[g] = 1 <=> g \in checkedGroups)

\* Two goroutines came to the same group and one of them stored it.
C19_Witness ==
    Succeeded /\ \E c \in Groups : SharedParent(c) /\ stored[c] = 1

====
